---- MODULE Spec2Model ----
(***************************************************************************)
(* Model of wf_student_data: the record differ (utils.compare_dataframes), *)
(* the versioned-record engine (PostgresClient.update_records /            *)
(* start_records / end_records) and the batch run (core.update_tc_data).   *)
(*                                                                         *)
(* A keyed table (a pandas DataFrame with a named index) is a record       *)
(*   [names |-> sequence of index level names,                             *)
(*    cols  |-> set of column names,                                       *)
(*    rows  |-> function from key tuples to [column -> value]].            *)
(* The null value (None / NaN) is the string Null.                         *)
(***************************************************************************)
EXTENDS Integers, Sequences, FiniteSets, TLC

VARIABLES
    \* ---- compare_dataframes called on its own (SpecDiff)
    current,        \* argument `current`
    updates,        \* argument `updates`
    result,         \* what the call returned or raised ("none" before the call)
    \* ---- one versioned table under update_records (SpecSCD)
    index_column_names, \* the natural-key columns of the table (fixed per table)
    records,        \* rows of the versioned table in the committed store
    next_record_id, \* the SERIAL sequence behind record_id
    call,           \* the latest call on the table: the statements it sent,
                    \* what it raised, and its update_values if it returned
    in_order,       \* no call so far used a timestamp earlier than one stored
    \* ---- update_tc_data, one run after another (SpecRun)
    tc,             \* what Transparent Classroom holds during the run
    pc,             \* where the run is: "connect", "try", "commit", "close",
                    \* "rollback", "except_close" or "done"
    step,           \* inside the try block: the index in Body of the next call
    conn,           \* the run's connection: "none", "open" or "closed"
    store,          \* [committed, txn]: the committed tc schema and the view
                    \* of it the run's connection has (with its own writes)
    before,         \* the committed tc schema when the run started
    next_update_id, \* the SERIAL sequence behind tc.updates.update_id
    locals,         \* update_id, school_ids, session_ids and the fetched frames
    err,            \* the first exception any call of the run raised
    raised,         \* the exception that left update_tc_data ("none": none yet)
    trace,          \* the calls of the run so far, in order
    runs,           \* how many runs were started
    \* ---- one PostgresClient operation after another on one table (SpecClient)
    stored,         \* the committed rows of the table: record_id -> value
    request,        \* the latest call: the operation and its arguments
    reply           \* what it raised or returned, the statements it composed
                    \* and the calls it made on connections, in order

diffVars == <<current, updates, result>>
scdVars == <<index_column_names, records, next_record_id, call, in_order>>
runVars == <<tc, pc, step, conn, store, before, next_update_id, locals, err, raised,
             trace, runs>>
clientVars == <<stored, request, reply>>
vars == <<current, updates, result,
          index_column_names, records, next_record_id, call, in_order,
          tc, pc, step, conn, store, before, next_update_id, locals, err, raised,
          trace, runs, stored, request, reply>>

Null == "null"

\* ------------------------------------------------------------------------
\* Bounds and value domains
\* ------------------------------------------------------------------------
MaxTime == 2
MaxRecordId == 3

\* three keyed tables: children by child, children by school and child, and
\* schools
KeyNames1 == <<"child_id">>
KeyNames2 == <<"school_id", "child_id">>
KeyNames3 == <<"school_id">>
Keys1 == {<<"5">>, <<"6">>}
Keys2 == {<<"1", "5">>, <<"1", "6">>}
Keys3 == {<<"1">>}
KeysFor(names) == IF names = KeyNames1 THEN Keys1 ELSE IF names = KeyNames2 THEN Keys2 ELSE Keys3

Range(s) == {s[i] : i \in DOMAIN s}

\* the rows a table over `keys` and the columns of `dom` can hold
TablesOver(names, keys, dom) ==
    LET cols == DOMAIN dom
        rowsets == UNION {[ks -> {r \in [cols -> UNION {dom[c] : c \in cols}] :
                                   \A c \in cols : r[c] \in dom[c]}] : ks \in SUBSET keys}
    IN {[names |-> names, cols |-> cols, rows |-> rs] : rs \in rowsets}

EmptyTable(names, cols) == [names |-> names, cols |-> cols, rows |-> <<>>]

\* ------------------------------------------------------------------------
\* utils.compare_dataframes
\* ------------------------------------------------------------------------
Keys(t) == DOMAIN t.rows

\* DataFrame.loc[row_indices, column_indices]
Loc(t, ks, cols) == [k \in ks |-> [c \in cols |-> t.rows[k][c]]]

IsNa(v) == v = Null

\* elementwise ==: a null never compares equal, not even to a null
ElemEq(a, b) == ~IsNa(a) /\ ~IsNa(b) /\ a = b

\* DataFrame.compare's mask: ~((self == other) | (self.isna() & other.isna()))
CompareMask(a, b) == ~(ElemEq(a, b) \/ (IsNa(a) /\ IsNa(b)))

\* DataFrame.compare(align_axis=0): the rows with any masked column are kept,
\* each twice, labelled by its key with 'self' / 'other' as a new innermost level
Compare(current_aligned, updates_aligned, cols) ==
    LET rmask == {k \in DOMAIN current_aligned :
                    \E c \in cols : CompareMask(current_aligned[k][c], updates_aligned[k][c])}
    IN {Append(k, m) : k \in rmask, m \in {"self", "other"}}

\* a differ that reports every common key as changed
ChangedRowIndicesAll(common_row_indices, compared) == common_row_indices

\* Index.droplevel(1): drops the level at position 1 (the second level)
DropLevel1(ix) == {SubSeq(t, 1, 1) \o SubSeq(t, 3, Len(t)) : t \in ix}

ChangedRowIndices(common_row_indices, compared) ==
    IF Cardinality(compared) > 0
    THEN common_row_indices \cap DropLevel1(compared)
    ELSE {}

\* a differ that reports every common key as unchanged
UnchangedRowIndicesAll(common_row_indices, changed_row_indices) == common_row_indices

UnchangedRowIndices(common_row_indices, changed_row_indices) ==
    common_row_indices \ changed_row_indices

\* a differ that checks the key names only
SchemaMismatchNamesOnly(cur, upd) == Range(cur.names) # Range(upd.names)

SchemaMismatch(cur, upd) ==
    \/ Range(cur.names) # Range(upd.names)
    \/ cur.cols # upd.cols

compare_dataframes(cur, upd) ==
    IF SchemaMismatch(cur, upd)
    THEN [raised |-> "ValueError"]
    ELSE
      LET deleted_row_indices == Keys(cur) \ Keys(upd)
          new_row_indices == Keys(upd) \ Keys(cur)
          common_row_indices == Keys(cur) \cap Keys(upd)
          common_column_indices == cur.cols \cap upd.cols
          current_aligned == Loc(cur, common_row_indices, common_column_indices)
          updates_aligned == Loc(upd, common_row_indices, common_column_indices)
          compared == Compare(current_aligned, updates_aligned, common_column_indices)
          changed_row_indices == ChangedRowIndices(common_row_indices, compared)
          unchanged_row_indices == UnchangedRowIndices(common_row_indices, changed_row_indices)
      IN [raised |-> "none",
          new_rows |-> Loc(upd, new_row_indices, common_column_indices),
          deleted_rows |-> Loc(cur, deleted_row_indices, common_column_indices),
          changed_rows |-> Loc(upd, changed_row_indices, common_column_indices),
          unchanged_rows |-> Loc(upd, unchanged_row_indices, common_column_indices)]

\* ------------------------------------------------------------------------
\* compare_dataframes on its own: the inputs are drawn from bounded tables
\* ------------------------------------------------------------------------
ValueColumns == [name |-> {"A", "B", Null}, grade |-> {"A", Null}]
NameColumn == [name |-> {"A", "B", Null}]

DiffCurrents == UNION {TablesOver(n, KeysFor(n), ValueColumns) : n \in {KeyNames1, KeyNames2}}

\* tables with the shape of `cur`, and tables with other key names or columns
DiffUpdates(cur) ==
    TablesOver(cur.names, KeysFor(cur.names), ValueColumns)
    \cup TablesOver(KeyNames1, Keys1, NameColumn)
    \cup {EmptyTable(KeyNames2, DOMAIN ValueColumns), EmptyTable(KeyNames1, DOMAIN ValueColumns)}

NotCalled == [raised |-> "not called"]

\* ------------------------------------------------------------------------
\* The versioned table: rows [record_id, key, vals, record_start, record_end];
\* a NULL record_end is <<>>, a set one is <<t>>
\* ------------------------------------------------------------------------
value_column_names == {"name"}
RecordValues == {"A", "B", "C"}

\* The schools table is the one on which time passes: the clock and the callers
\* draw their timestamps from 1..MaxTime there, no statement fails (so that
\* the two connection modes do not differ and one is taken), and the table
\* holds one row less.  On the two children tables there is one timestamp and
\* the store may fail a statement, in either connection mode.
TimesFor(names) == IF names = KeyNames3 THEN 1..MaxTime ELSE {1}
FailuresFor(names) == IF names = KeyNames3 THEN {"none"} ELSE {"none", "end", "start"}
ConnectionsFor(names) == IF names = KeyNames3 THEN {"caller"} ELSE {"auto", "caller"}
MaxIdFor(names) == IF names = KeyNames3 THEN MaxRecordId - 1 ELSE MaxRecordId

\* the index in sorted order (pandas keeps set results sorted)
SortedKeys(names) ==
    IF names = KeyNames1 THEN << <<"5">>, <<"6">> >>
    ELSE IF names = KeyNames2 THEN << <<"1", "5">>, <<"1", "6">> >>
    ELSE << <<"1">> >>

SortedIndex(names, ks) == LET in(k) == k \in ks IN SelectSeq(SortedKeys(names), in)

IsOpen(r) == r.record_end = <<>>

\* records.loc[records['record_end'].isna()] re-keyed by the natural key
current_records(recs) ==
    LET open == {r \in recs : IsOpen(r)}
    IN [k \in {r.key : r \in open} |-> CHOOSE r \in open : r.key = k]

current_values(recs, names) ==
    LET cr == current_records(recs)
    IN [names |-> names, cols |-> value_column_names,
        rows |-> [k \in DOMAIN cr |-> [c \in value_column_names |-> cr[k].vals[c]]]]

\* an end_records that ends nothing
end_records_nothing(recs, record_ids, record_end) == recs

\* an end_records that stamps the rows one tick late
end_records_late(recs, record_ids, record_end) ==
    {IF r.record_id \in record_ids THEN [r EXCEPT !.record_end = <<record_end + 1>>] ELSE r
       : r \in recs}

\* an end_records that deletes the rows
end_records_delete(recs, record_ids, record_end) ==
    {r \in recs : r.record_id \notin record_ids}

\* an end_records that ends the row of its first id only
end_records_first(recs, record_ids, record_end) ==
    IF Cardinality(record_ids) = 0
    THEN recs
    ELSE LET first == CHOOSE id \in record_ids : \A other \in record_ids : id <= other
         IN {IF r.record_id = first THEN [r EXCEPT !.record_end = <<record_end>>] ELSE r
               : r \in recs}

\* end_records: UPDATE ... SET record_end = %s WHERE (record_id) = (%s), one per id
end_records(recs, record_ids, record_end) ==
    IF Cardinality(record_ids) = 0
    THEN recs
    ELSE {IF r.record_id \in record_ids THEN [r EXCEPT !.record_end = <<record_end>>] ELSE r
          : r \in recs}

\* a start_records that reads the clock again, one tick later
start_records_now(recs, order, values, record_start, first_id) ==
    IF Len(order) = 0
    THEN recs
    ELSE recs \cup {[record_id |-> first_id + i - 1, key |-> order[i], vals |-> values[order[i]],
                     record_start |-> record_start + 1, record_end |-> <<>>] : i \in DOMAIN order}

\* start_records: INSERT of every row of `values` (a sequence of keys and the
\* rows they carry) with record_start; the store numbers the rows from first_id
\* and leaves record_end NULL
start_records(recs, order, values, record_start, first_id) ==
    IF Len(order) = 0
    THEN recs
    ELSE recs \cup {[record_id |-> first_id + i - 1, key |-> order[i], vals |-> values[order[i]],
                     record_start |-> record_start, record_end |-> <<>>] : i \in DOMAIN order}

\* the statements end_records and start_records send
EndStatements(record_ids) == IF Cardinality(record_ids) = 0 THEN <<>> ELSE <<"UPDATE">>
StartStatements(order) == IF Len(order) = 0 THEN <<>> ELSE <<"INSERT">>

Stamps(recs) == {r.record_start : r \in recs} \cup {r.record_end[1] : r \in {x \in recs : ~IsOpen(x)}}

NoCall ==
    [op |-> "none", update_values |-> EmptyTable(<<>>, {}), raised |-> "none", statements |-> <<>>,
     resync |-> FALSE, names |-> <<>>, cols |-> {}, update_time |-> 0]

\* what one call of update_records does to the table; utcnow is what the clock
\* reads, fail the statement (if any) at which the store fails: "none", "end"
\* or "start".  With connection = "auto" (connection=None) every statement is
\* committed by execute / executemany as it returns; with connection = "caller"
\* the caller commits after a call that returned and rolls back after one that
\* raised.
UpdateOutcome(update_values, update_time, utcnow, connection, fail) ==
    LET t == IF update_time = <<>> THEN utcnow ELSE update_time[1]
        cr == current_records(records)
        d == compare_dataframes(current_values(records, index_column_names), update_values)
        \* the call before this one returned, and had the same update_values
        resync == call.op = "update_records" /\ call.raised = "none"
                  /\ call.update_values = update_values
        base == [NoCall EXCEPT !.op = "update_records", !.statements = <<"SELECT">>,
                               !.resync = resync, !.names = update_values.names,
                               !.cols = update_values.cols, !.update_time = t]
        same == [records |-> records, next_record_id |-> next_record_id, in_order |-> in_order]
    IN IF d.raised # "none"
       THEN same @@ [call |-> [base EXCEPT !.raised = d.raised]]
       ELSE
         LET changed == DOMAIN d.changed_rows
             new == DOMAIN d.new_rows
             deleted == DOMAIN d.deleted_rows
             \* new_records = pd.concat([changed_rows, new_rows])
             order == SortedIndex(index_column_names, changed) \o SortedIndex(index_column_names, new)
             new_records == [k \in changed \cup new |->
                               IF k \in changed THEN d.changed_rows[k] ELSE d.new_rows[k]]
             end_record_ids == {cr[k].record_id : k \in changed \cup deleted}
             ended == end_records(records, end_record_ids, t)
             started == start_records(ended, order, new_records, t, next_record_id)
             ordered == in_order /\ (ended = records \/ \A x \in Stamps(records) : x <= t)
             ordered2 == in_order /\ (started = records \/ \A x \in Stamps(records) : x <= t)
         IN IF fail = "end"
            THEN same @@ [call |-> [base EXCEPT !.raised = "StoreError",
                                                !.statements = <<"SELECT", "UPDATE">>]]
            ELSE IF fail = "start"
            THEN [records |-> IF connection = "caller" THEN records ELSE ended,
                  next_record_id |-> next_record_id,
                  in_order |-> IF connection = "caller" THEN in_order ELSE ordered,
                  call |-> [base EXCEPT !.raised = "StoreError",
                                        !.statements = <<"SELECT">> \o EndStatements(end_record_ids)
                                                       \o <<"INSERT">>]]
            ELSE [records |-> started,
                  next_record_id |-> next_record_id + Len(order),
                  in_order |-> ordered2,
                  call |-> [base EXCEPT !.update_values = update_values,
                                        !.statements = <<"SELECT">> \o EndStatements(end_record_ids)
                                                       \o StartStatements(order)]]

\* fail = "end" needs an UPDATE to be sent, fail = "start" an INSERT
Sends(update_values, fail) ==
    LET d == compare_dataframes(current_values(records, index_column_names), update_values)
    IN CASE fail = "none" -> TRUE
         [] d.raised # "none" -> FALSE
         [] fail = "end" -> DOMAIN d.changed_rows \cup DOMAIN d.deleted_rows # {}
         [] fail = "start" -> DOMAIN d.changed_rows \cup DOMAIN d.new_rows # {}

\* the update tables offered to update_records: a child "5" or a school is
\* named "A" or "B", the child "6" is named "C"; and two tables of another shape
\* (on the children tables)
ScdRows(keys) ==
    {r \in UNION {[ks -> RecordValues] : ks \in SUBSET keys} :
        \A k \in DOMAIN r : (r[k] = "C") <=> (k[Len(k)] = "6")}

ScdUpdates ==
    {[names |-> index_column_names, cols |-> value_column_names,
      rows |-> [k \in DOMAIN r |-> [c \in value_column_names |-> r[k]]]]
       : r \in ScdRows(KeysFor(index_column_names))}
    \cup (IF index_column_names = KeyNames3 THEN {}
          ELSE {EmptyTable(<<"user_id">>, value_column_names),
                EmptyTable(index_column_names, {"name", "grade"})})

UpdateRecords(update_values, update_time, utcnow, connection, fail) ==
    /\ Sends(update_values, fail)
    /\ LET o == UpdateOutcome(update_values, update_time, utcnow, connection, fail)
       IN /\ o.next_record_id <= MaxIdFor(index_column_names) + 1
          /\ records' = o.records
          /\ next_record_id' = o.next_record_id
          /\ call' = o.call
          /\ in_order' = o.in_order
    /\ UNCHANGED index_column_names
    /\ UNCHANGED diffVars
    /\ UNCHANGED runVars
    /\ UNCHANGED clientVars

\* ------------------------------------------------------------------------
\* update_tc_data (core.py): the batch run against the tc schema
\* ------------------------------------------------------------------------
\* runs started at most (the SERIAL sequence never goes beyond it)
MaxRuns == 2

\* a try block that writes update_end before the last table is persisted
BodyEndsEarly ==
    << [op |-> "insert_row", table |-> "updates"],
       [op |-> "fetch", table |-> "schools"],
       [op |-> "insert", table |-> "schools"],
       [op |-> "fetch", table |-> "classrooms"],
       [op |-> "insert", table |-> "classrooms"],
       [op |-> "fetch", table |-> "sessions"],
       [op |-> "insert", table |-> "sessions"],
       [op |-> "fetch", table |-> "users"],
       [op |-> "insert", table |-> "users"],
       [op |-> "fetch", table |-> "children"],
       [op |-> "insert", table |-> "children"],
       [op |-> "insert", table |-> "children_parents"],
       [op |-> "fetch", table |-> "classrooms_children"],
       [op |-> "update_row", table |-> "updates"],
       [op |-> "insert", table |-> "classrooms_children"] >>

\* a try block that persists the classrooms before the schools
BodySchoolsLate ==
    << [op |-> "insert_row", table |-> "updates"],
       [op |-> "fetch", table |-> "schools"],
       [op |-> "fetch", table |-> "classrooms"],
       [op |-> "insert", table |-> "classrooms"],
       [op |-> "insert", table |-> "schools"],
       [op |-> "fetch", table |-> "sessions"],
       [op |-> "insert", table |-> "sessions"],
       [op |-> "fetch", table |-> "users"],
       [op |-> "insert", table |-> "users"],
       [op |-> "fetch", table |-> "children"],
       [op |-> "insert", table |-> "children"],
       [op |-> "insert", table |-> "children_parents"],
       [op |-> "fetch", table |-> "classrooms_children"],
       [op |-> "insert", table |-> "classrooms_children"],
       [op |-> "update_row", table |-> "updates"] >>

\* the calls of the try block, in the order of the code
Body ==
    << [op |-> "insert_row", table |-> "updates"],
       [op |-> "fetch", table |-> "schools"],
       [op |-> "insert", table |-> "schools"],
       [op |-> "fetch", table |-> "classrooms"],
       [op |-> "insert", table |-> "classrooms"],
       [op |-> "fetch", table |-> "sessions"],
       [op |-> "insert", table |-> "sessions"],
       [op |-> "fetch", table |-> "users"],
       [op |-> "insert", table |-> "users"],
       [op |-> "fetch", table |-> "children"],
       [op |-> "insert", table |-> "children"],
       [op |-> "insert", table |-> "children_parents"],
       [op |-> "fetch", table |-> "classrooms_children"],
       [op |-> "insert", table |-> "classrooms_children"],
       [op |-> "update_row", table |-> "updates"] >>

EntityTables ==
    {"schools", "classrooms", "sessions", "users", "children", "children_parents",
     "classrooms_children"}

\* the entity tables a table's FOREIGN KEY clauses name (all name tc.updates)
References(table) ==
    CASE table = "schools" -> {}
      [] table \in {"sessions", "classrooms", "users", "children"} -> {"schools"}
      [] table = "children_parents" -> {"children", "users"}
      [] table = "classrooms_children" -> {"sessions", "classrooms", "children"}

\* Transparent Classroom holds one or two schools, each with one classroom,
\* one session, one user and one child with one parent; the child is enrolled
\* in the classroom for the session, or (enrolled = FALSE) no child is
Remotes == [schools : {{"1"}, {"1", "2"}}, enrolled : BOOLEAN]

\* the index of the frames the fetch_* functions return
fetch_school_data(remote) == {<<s>> : s \in remote.schools}
fetch_classroom_data(remote, school_ids) == {<<id[1], "c">> : id \in school_ids}
fetch_session_data(remote, school_ids) == {<<id[1], "n">> : id \in school_ids}
fetch_user_data(remote, school_ids) == {<<id[1], "u">> : id \in school_ids}
fetch_child_data(remote, school_ids) ==
    [children |-> {<<id[1], "k">> : id \in school_ids},
     children_parents |-> {<<id[1], "k", "u">> : id \in school_ids}]
fetch_classroom_child_data(remote, session_ids) ==
    IF remote.enrolled
    THEN {<<id[1], id[2], "c", "k">> : id \in session_ids}
    ELSE {}

\* a stamp with the id after the run's own
StampOther(table, keys, update_id) ==
    {[table |-> table, key |-> k, update_id |-> update_id + 1] : k \in keys}

\* .assign(update_id=update_id).set_index('update_id', append=True)
Stamp(table, keys, update_id) ==
    {[table |-> table, key |-> k, update_id |-> update_id] : k \in keys}

EmptySchema == [updates |-> {}, rows |-> {}]

\* the connection update_tc_data hands to the client with every statement
ConnectionArgNone(table) == "auto"

ConnectionArg(table) == "run"

\* PostgresClient.executemany of an INSERT: on the connection it is given, or,
\* given none, on one of its own that it commits
executemany(st, rows, connection) ==
    IF connection = "auto"
    THEN [committed |-> [st.committed EXCEPT !.rows = @ \cup rows],
          txn |-> [st.txn EXCEPT !.rows = @ \cup rows]]
    ELSE [st EXCEPT !.txn.rows = @ \cup rows]

\* PostgresClient.execute of the INSERT / UPDATE of the run row
execute(st, update_id, update_end, connection) ==
    LET put(schema) ==
            [schema EXCEPT !.updates =
                {u \in @ : u.update_id # update_id}
                \cup {[update_id |-> update_id, update_end |-> update_end]}]
    IN IF connection = "auto"
       THEN [committed |-> put(st.committed), txn |-> put(st.txn)]
       ELSE [st EXCEPT !.txn = put(@)]

NoLocals ==
    [update_id |-> 0, school_ids |-> {}, session_ids |-> {},
     frames |-> [t \in EntityTables |-> {}], args |-> {}]

\* an index read from the frame after update_id was appended to it
IndexAfterStamp(keys) == {Append(k, "update_id") : k \in keys}

\* school_ids = schools.index, session_ids = sessions.index: the index of the
\* frame as fetched
Index(keys) == keys

\* school_ids=school_ids, session_ids=session_ids: what a fetch is handed
Handed(table, ids) == locals.args \cup {[table |-> table, ids |-> ids]}

RunIdle ==
    /\ tc = [schools |-> {}, enrolled |-> FALSE]
    /\ pc = "done"
    /\ step = 0
    /\ conn = "none"
    /\ store = [committed |-> EmptySchema, txn |-> EmptySchema]
    /\ before = EmptySchema
    /\ next_update_id = 1
    /\ locals = NoLocals
    /\ err = "none"
    /\ raised = "none"
    /\ trace = <<>>
    /\ runs = 0

\* ------------------------------------------------------------------------
\* PostgresClient: the statements it composes and the calls it makes
\* ------------------------------------------------------------------------
\* an optional list argument: None, or a list (which may be empty)
None == [some |-> FALSE, v |-> <<>>]
Some(list) == [some |-> TRUE, v |-> list]

\* an empty list left as it is
NormalizedKept(x) == x

\* `x is not None and len(x) == 0` turns x into None
Normalized(x) == IF x.some /\ Len(x.v) = 0 THEN None ELSE x

\* sql.SQL(sep).join(items), a statement being the sequence of its tokens
RECURSIVE Join(_, _)
Join(sep, items) ==
    IF Len(items) = 0 THEN <<>>
    ELSE IF Len(items) = 1 THEN <<items[1]>>
    ELSE <<items[1], sep>> \o Join(sep, Tail(items))

RECURSIVE Concat(_)
Concat(seqs) == IF Len(seqs) = 0 THEN <<>> ELSE Head(seqs) \o Concat(Tail(seqs))

\* one placeholder whatever the number of columns
PlaceholdersOne(n) == <<"%s">>

\* sql.Placeholder() * n
Placeholders(n) == [i \in 1..n |-> "%s"]

\* a WHERE clause for any list that is not None, the empty one included
WhereClauseGiven(match_column_names) ==
    IF match_column_names.some
    THEN <<"WHERE", "(">> \o Join(",", match_column_names.v) \o <<")", "=", "(">>
         \o Join(",", Placeholders(Len(match_column_names.v))) \o <<")">>
    ELSE <<>>

WhereClause(match_column_names) ==
    IF match_column_names.some /\ Len(match_column_names.v) > 0
    THEN <<"WHERE", "(">> \o Join(",", match_column_names.v) \o <<")", "=", "(">>
         \o Join(",", Placeholders(Len(match_column_names.v))) \o <<")">>
    ELSE <<>>

ReturningClause(return_column_names) ==
    IF return_column_names.some /\ Len(return_column_names.v) > 0
    THEN <<"RETURNING">> \o Join(",", return_column_names.v)
    ELSE <<>>

compose_select_sql(select_column_names, match_column_names) ==
    <<"SELECT">>
    \o (IF select_column_names.some /\ Len(select_column_names.v) > 0
        THEN Join(",", select_column_names.v)
        ELSE <<"*">>)
    \o <<"FROM", "schema_name", ".", "table_name">>
    \o WhereClause(match_column_names)

compose_insert_sql(insert_column_names, return_column_names) ==
    <<"INSERT", "INTO", "schema_name", ".", "table_name">>
    \o (IF insert_column_names.some /\ Len(insert_column_names.v) > 0
        THEN <<"(">> \o Join(",", insert_column_names.v) \o <<")", "VALUES", "(">>
             \o Join(",", Placeholders(Len(insert_column_names.v))) \o <<")">>
        ELSE <<"DEFAULT", "VALUES">>)
    \o ReturningClause(return_column_names)

\* update_column_names is a required list
compose_update_sql(update_column_names, match_column_names, return_column_names) ==
    <<"UPDATE", "schema_name", ".", "table_name", "SET">>
    \o Concat(Join(<<",">>,
                    [i \in 1..Len(update_column_names) |-> <<update_column_names[i], "=", "%s">>]))
    \o WhereClause(match_column_names)
    \o ReturningClause(return_column_names)

compose_delete_sql(match_column_names, return_column_names) ==
    <<"DELETE", "FROM", "schema_name", ".", "table_name">>
    \o WhereClause(match_column_names)
    \o ReturningClause(return_column_names)

\* ---- the store: one versioned table; record_id is its key, filled from a
\* sequence when the INSERT gives none; a column the INSERT leaves out is NULL
Columns == {"record_id", "name", "record_start", "record_end"}
RecordIds == <<"1", "2", "3", "4", "5", "6">>

Count(seq, x) == Cardinality({i \in DOMAIN seq : seq[i] = x})
Holds(seq, x) == \E i \in DOMAIN seq : seq[i] = x
First(seq, x) == CHOOSE i \in DOMAIN seq : seq[i] = x /\ \A j \in 1..(i - 1) : seq[j] # x

\* the identifiers between the first "(" after position from and its ")"
Listed(sql, from) ==
    LET open == CHOOSE i \in from..Len(sql) : sql[i] = "(" /\ \A j \in from..(i - 1) : sql[j] # "("
        close == CHOOSE i \in open..Len(sql) : sql[i] = ")" /\ \A j \in open..(i - 1) : sql[j] # ")"
    IN SelectSeq(SubSeq(sql, open + 1, close - 1), LAMBDA t : t # ",")

\* the columns of the WHERE clause, of the SET clause and of the INSERT
WhereColumns(sql) == IF Holds(sql, "WHERE") THEN Listed(sql, First(sql, "WHERE")) ELSE <<>>
SetColumns(sql) ==
    LET at == {i \in DOMAIN sql : i < Len(sql) /\ sql[i + 1] = "="
                                  /\ (Holds(sql, "WHERE") => i < First(sql, "WHERE"))}
    IN [n \in 1..Cardinality(at) |->
          sql[CHOOSE i \in at : Cardinality({j \in at : j < i}) = n - 1]]
InsertColumns(sql) ==
    IF sql[1] # "INSERT" \/ Holds(sql, "DEFAULT") THEN <<>> ELSE Listed(sql, 1)

\* the rows `(k1, ...) = (v1, ...)` is true of: NULL equals nothing
Matching(tbl, columns, values) ==
    {r \in tbl : \A i \in DOMAIN columns : ~IsNa(values[i]) /\ r[columns[i]] = values[i]}

\* cursor.execute(sql, parameters) inside one transaction whose view of the
\* table is tbl: what it raises, the view afterwards and what fetchall gives
Statement(tbl, sql, parameters) ==
    LET values == parameters.v
        unknown == \E c \in Range(WhereColumns(sql)) \cup Range(SetColumns(sql))
                            \cup Range(InsertColumns(sql)) : c \notin Columns
        where == WhereColumns(sql)
        set == SetColumns(sql)
        hit == Matching(tbl, where, SubSeq(values, Len(set) + 1, Len(values)))
        ins == InsertColumns(sql)
        free == {i \in DOMAIN RecordIds : \A r \in tbl : r.record_id # RecordIds[i]}
        given(c) == IF Holds(ins, c) THEN values[First(ins, c)] ELSE Null
        row == [c \in Columns |->
                  IF c = "record_id" /\ ~Holds(ins, c)
                  THEN RecordIds[CHOOSE i \in free : \A j \in free : i <= j]
                  ELSE given(c)]
        failed(e) == [raised |-> e, tbl |-> tbl, data |-> {}]
    IN IF Count(sql, "%s") # Len(values) \/ unknown
       THEN failed("ProgrammingError")
       ELSE CASE sql[1] = "SELECT" -> [raised |-> "none", tbl |-> tbl, data |-> hit]
              [] sql[1] = "DELETE" -> [raised |-> "none", tbl |-> tbl \ hit, data |-> hit]
              [] sql[1] = "UPDATE" ->
                   LET new(r) == [c \in Columns |->
                                     IF Holds(set, c) THEN values[First(set, c)] ELSE r[c]]
                   IN [raised |-> "none", tbl |-> (tbl \ hit) \cup {new(r) : r \in hit},
                       data |-> {new(r) : r \in hit}]
              [] sql[1] = "INSERT" ->
                   IF (~Holds(ins, "record_id") /\ free = {})
                      \/ (Holds(ins, "record_id")
                          /\ (IsNa(row.record_id) \/ \E r \in tbl : r.record_id = row.record_id))
                   THEN failed("IntegrityError")
                   ELSE [raised |-> "none", tbl |-> tbl \cup {row}, data |-> {row}]

\* ---- the calls of one client operation, accumulated: what was raised, the
\* table as the connection in use sees it, the committed table, the calls made
\* on connections, the statements sent, the rows of the last fetchall, and how
\* many connections the client opened and statements it sent
Caller == [owner |-> "caller", n |-> 0]
Own(n) == [owner |-> "client", n |-> n]

Started(tbl) ==
    [raised |-> "none", tbl |-> tbl, committed |-> tbl, events |-> <<>>, statements |-> <<>>,
     data |-> {}, nown |-> 0, nstmt |-> 0, composed |-> <<>>]

Raise(acc, e) == IF acc.raised = "none" THEN [acc EXCEPT !.raised = e] ELSE acc

\* execute / executemany around the cursor call, whose outcome on acc.tbl is
\* ran = [raised, tbl, data]; fail is the number of the statement the store fails
OnConnection(acc, sql, parameters, connection, fail, ran) ==
    IF acc.raised # "none" THEN acc
    ELSE
      LET existing_connection == connection = "caller"
          c == IF existing_connection THEN Caller ELSE Own(acc.nown + 1)
          r == IF acc.nstmt + 1 = fail
               THEN [raised |-> "StoreError", tbl |-> acc.tbl, data |-> {}]
               ELSE ran
          ok == r.raised = "none"
      IN [raised |-> r.raised,
          tbl |-> IF ok THEN r.tbl ELSE acc.tbl,
          committed |-> IF ok /\ ~existing_connection THEN r.tbl ELSE acc.committed,
          events |-> acc.events
                     \o (IF existing_connection THEN <<>> ELSE <<[on |-> c, call |-> "connect"]>>)
                     \o <<[on |-> c, call |-> "cursor"]>>
                     \o (IF ok /\ ~existing_connection
                         THEN <<[on |-> c, call |-> "commit"], [on |-> c, call |-> "close"]>>
                         ELSE <<>>),
          statements |-> Append(acc.statements, [sql |-> sql, parameters |-> parameters, on |-> c]),
          data |-> r.data,
          nown |-> IF existing_connection THEN acc.nown ELSE acc.nown + 1,
          nstmt |-> acc.nstmt + 1,
          composed |-> acc.composed]

\* cursor.executemany: the statement once per parameter list, all or nothing;
\* a parameters_list of None cannot be iterated
RECURSIVE Batch(_, _, _)
Batch(tbl, sql, lists) ==
    IF Len(lists) = 0 THEN [raised |-> "none", tbl |-> tbl, data |-> {}]
    ELSE LET r == Statement(tbl, sql, Some(Head(lists)))
         IN IF r.raised # "none" THEN r ELSE Batch(r.tbl, sql, Tail(lists))

\* execute that drops the connection it was given and opens its own
ClientExecuteOwn(acc, sql, parameters, connection, fail) ==
    OnConnection(acc, sql, parameters, "auto", fail, Statement(acc.tbl, sql, parameters))

ClientExecute(acc, sql, parameters, connection, fail) ==
    OnConnection(acc, sql, parameters, connection, fail, Statement(acc.tbl, sql, parameters))

ClientExecuteMany(acc, sql, parameters_list, connection, fail) ==
    OnConnection(acc, sql, parameters_list, connection, fail,
                 IF ~parameters_list.some
                 THEN [raised |-> "TypeError", tbl |-> acc.tbl, data |-> {}]
                 ELSE Batch(acc.tbl, sql, parameters_list.v))

\* data_list[0] after an execute that returned
FirstRow(acc) ==
    IF acc.raised = "none" /\ acc.data = {} THEN Raise(acc, "IndexError") ELSE acc

\* the loop with the first value of each parameter list written into the
\* statement in place of its placeholders
RECURSIVE ExecuteEachInline(_, _, _, _, _)
ExecuteEachInline(acc, sql, lists, connection, fail) ==
    IF Len(lists) = 0 \/ acc.raised # "none" THEN acc
    ELSE LET inline == [i \in DOMAIN sql |->
                          IF sql[i] = "%s" /\ Len(Head(lists)) > 0 THEN Head(lists)[1]
                          ELSE sql[i]]
         IN ExecuteEachInline(
                FirstRow(ClientExecute(acc, inline, Some(Head(lists)), connection, fail)),
                sql, Tail(lists), connection, fail)

\* for parameters in parameters_list: execute(...); data_list[0]
RECURSIVE ExecuteEach(_, _, _, _, _)
ExecuteEach(acc, sql, lists, connection, fail) ==
    IF Len(lists) = 0 \/ acc.raised # "none" THEN acc
    ELSE ExecuteEach(FirstRow(ClientExecute(acc, sql, Some(Head(lists)), connection, fail)),
                     sql, Tail(lists), connection, fail)

\* sql_object = self.compose_..._sql(...)
Composed(acc, sql) == [acc EXCEPT !.composed = Append(@, sql)]

\* ---- the operations of the client; a is the record of the arguments
select_rows(tbl, a, connection, fail) ==
    LET select_column_names == Normalized(a.select_column_names)
        match_column_names == Normalized(a.match_column_names)
        match_values_list == Normalized(a.match_values_list)
        sql_object == compose_select_sql(select_column_names, match_column_names)
        acc == Composed(Started(tbl), sql_object)
    IN IF match_values_list.some
       THEN ExecuteEach(acc, sql_object, match_values_list.v, connection, fail)
       ELSE ClientExecute(acc, sql_object, None, connection, fail)

select_row(tbl, a, connection, fail) ==
    LET select_column_names == Normalized(a.select_column_names)
        match_column_names == Normalized(a.match_column_names)
        match_values == Normalized(a.match_values)
        sql_object == compose_select_sql(select_column_names, match_column_names)
    IN IF ~match_column_names.some \/ ~match_values.some
       THEN Raise(Started(tbl), "ValueError")
       ELSE FirstRow(ClientExecute(Composed(Started(tbl), sql_object), sql_object, match_values,
                                   connection, fail))

insert_rows(tbl, a, connection, fail) ==
    LET insert_column_names == Normalized(a.insert_column_names)
        insert_values_list == Normalized(a.insert_values_list)
        return_column_names == Normalized(a.return_column_names)
        sql_object == compose_insert_sql(insert_column_names, return_column_names)
        acc == Composed(Started(tbl), sql_object)
    IN IF return_column_names.some
       THEN IF ~insert_values_list.some
            THEN Raise(acc, "TypeError")
            ELSE ExecuteEach(acc, sql_object, insert_values_list.v, connection, fail)
       ELSE ClientExecuteMany(acc, sql_object, insert_values_list, connection, fail)

insert_row(tbl, a, connection, fail) ==
    LET insert_column_names == Normalized(a.insert_column_names)
        insert_values == Normalized(a.insert_values)
        return_column_names == Normalized(a.return_column_names)
        sql_object == compose_insert_sql(insert_column_names, return_column_names)
        acc == ClientExecute(Composed(Started(tbl), sql_object), sql_object, insert_values,
                             connection, fail)
    IN IF return_column_names.some THEN FirstRow(acc) ELSE acc

\* the pairs joined with the match values first
RECURSIVE ZipMatchFirst(_, _)
ZipMatchFirst(xs, ys) ==
    IF Len(xs) = 0 \/ Len(ys) = 0 THEN <<>>
    ELSE <<Head(ys) \o Head(xs)>> \o ZipMatchFirst(Tail(xs), Tail(ys))

\* zip(update_values_list, match_values_list), each pair joined into one list
RECURSIVE Zip(_, _)
Zip(xs, ys) ==
    IF Len(xs) = 0 \/ Len(ys) = 0 THEN <<>>
    ELSE <<Head(xs) \o Head(ys)>> \o Zip(Tail(xs), Tail(ys))

update_rows(tbl, a, connection, fail) ==
    LET match_column_names == Normalized(a.match_column_names)
        match_values_list == Normalized(a.match_values_list)
        return_column_names == Normalized(a.return_column_names)
        sql_object == compose_update_sql(a.update_column_names, match_column_names,
                                         return_column_names)
        \* [[]*len(update_values_list)] is [[]]
        matches == IF match_values_list.some THEN match_values_list.v ELSE << <<>> >>
        parameters_list == Zip(a.update_values_list, matches)
        acc == Composed(Started(tbl), sql_object)
    IN IF return_column_names.some
       THEN IF Len(parameters_list) = 0
            THEN Raise(acc, "IndexError")
            ELSE ExecuteEach(acc, sql_object, parameters_list, connection, fail)
       ELSE ClientExecuteMany(acc, sql_object, Some(parameters_list), connection, fail)

update_row(tbl, a, connection, fail) ==
    LET match_column_names == Normalized(a.match_column_names)
        match_values == Normalized(a.match_values)
        return_column_names == Normalized(a.return_column_names)
        sql_object == compose_update_sql(a.update_column_names, match_column_names,
                                         return_column_names)
    IN IF ~match_column_names.some \/ ~match_values.some
       THEN Raise(Started(tbl), "ValueError")
       ELSE LET acc == ClientExecute(Composed(Started(tbl), sql_object), sql_object,
                                     Some(a.update_values \o match_values.v), connection, fail)
            IN IF return_column_names.some THEN FirstRow(acc) ELSE acc

delete_rows(tbl, a, connection, fail) ==
    LET match_column_names == Normalized(a.match_column_names)
        match_values_list == Normalized(a.match_values_list)
        return_column_names == Normalized(a.return_column_names)
        sql_object == compose_delete_sql(match_column_names, return_column_names)
        acc == Composed(Started(tbl), sql_object)
    IN IF match_values_list.some /\ return_column_names.some
       THEN ExecuteEach(acc, sql_object, match_values_list.v, connection, fail)
       ELSE IF match_values_list.some
       THEN ClientExecuteMany(acc, sql_object, match_values_list, connection, fail)
       ELSE ClientExecute(acc, sql_object, None, connection, fail)

delete_row(tbl, a, connection, fail) ==
    LET match_column_names == Normalized(a.match_column_names)
        match_values == Normalized(a.match_values)
        return_column_names == Normalized(a.return_column_names)
        sql_object == compose_delete_sql(match_column_names, return_column_names)
    IN IF ~match_column_names.some \/ ~match_values.some
       THEN Raise(Started(tbl), "ValueError")
       ELSE LET acc == ClientExecute(Composed(Started(tbl), sql_object), sql_object,
                                     match_values, connection, fail)
            IN IF return_column_names.some THEN FirstRow(acc) ELSE acc

\* insert_dataframe: the columns and the rows of the frame go to insert_rows,
\* a frame without rows as an empty list
insert_dataframe(tbl, columns, values, connection, fail) ==
    insert_rows(tbl,
                [insert_column_names |-> Some(columns),
                 insert_values_list |-> Some(values),
                 return_column_names |-> None],
                connection, fail)

\* start_records on a frame `values` of names: insert_dataframe of the frame
\* with record_start assigned
client_start_records(tbl, a, connection, fail) ==
    IF Len(a.values) = 0
    THEN Started(tbl)
    ELSE insert_dataframe(tbl, <<"name", "record_start">>,
                          [i \in DOMAIN a.values |-> <<a.values[i], a.record_start>>],
                          connection, fail)

\* end_records without its check of an empty list
end_records_unchecked(tbl, a, connection, fail) ==
    update_rows(tbl,
                [update_column_names |-> <<"record_end">>,
                 update_values_list |-> [i \in DOMAIN a.record_ids |-> <<a.record_end>>],
                 match_column_names |-> Some(<<"record_id">>),
                 match_values_list |-> Some([i \in DOMAIN a.record_ids |-> <<a.record_ids[i]>>]),
                 return_column_names |-> None],
                connection, fail)

client_end_records(tbl, a, connection, fail) ==
    IF Len(a.record_ids) = 0
    THEN Started(tbl)
    ELSE update_rows(tbl,
                     [update_column_names |-> <<"record_end">>,
                      update_values_list |-> [i \in DOMAIN a.record_ids |-> <<a.record_end>>],
                      match_column_names |-> Some(<<"record_id">>),
                      match_values_list |->
                          Some([i \in DOMAIN a.record_ids |-> <<a.record_ids[i]>>]),
                      return_column_names |-> None],
                     connection, fail)

\* ---- the calls offered to the client
\* the longest list of parameter lists
MaxBatch == 2

\* lists of every length up to MaxBatch: of record ids, and of values
IdLists == {[i \in 1..n |-> <<RecordIds[i]>>] : n \in 0..MaxBatch}
ValueLists == {[i \in 1..n |-> <<IF i % 2 = 1 THEN "x" ELSE "y">>] : n \in 0..MaxBatch}

MatchColumnNames == {None, Some(<<>>), Some(<<"record_id">>)}
MatchValues == {None, Some(<<>>), Some(<<"1">>), Some(<<"3">>)}
MatchValuesLists == {None} \cup {Some(l) : l \in IdLists}
ReturnColumnNames ==
    {None, Some(<<>>), Some(<<"record_id">>), Some(<<"record_end", "record_id">>)}
SelectColumnNames == ReturnColumnNames \cup {Some(<<"record_id", "record_end">>)}
InsertColumnNames == {None, Some(<<>>), Some(<<"name">>), Some(<<"record_id", "name">>)}
InsertValues == {None, Some(<<>>), Some(<<"x">>), Some(<<"1", "x">>), Some(<<"3", "x">>)}
InsertValuesLists ==
    {None} \cup {Some(l) : l \in ValueLists} \cup {Some(<< <<"3", "x">> >>)}

SelectRowsArgs ==
    [select_column_names : SelectColumnNames, match_column_names : MatchColumnNames,
     match_values_list : MatchValuesLists]
SelectRowArgs ==
    [select_column_names : SelectColumnNames, match_column_names : MatchColumnNames,
     match_values : MatchValues]
InsertRowsArgs ==
    [insert_column_names : InsertColumnNames, insert_values_list : InsertValuesLists,
     return_column_names : ReturnColumnNames]
InsertRowArgs ==
    [insert_column_names : InsertColumnNames, insert_values : InsertValues,
     return_column_names : ReturnColumnNames]
UpdateRowsArgs ==
    [update_column_names : {<<"record_end">>}, update_values_list : ValueLists,
     match_column_names : MatchColumnNames, match_values_list : MatchValuesLists,
     return_column_names : ReturnColumnNames]
UpdateRowArgs ==
    [update_column_names : {<<"record_end">>}, update_values : {<<"x">>},
     match_column_names : MatchColumnNames, match_values : MatchValues,
     return_column_names : ReturnColumnNames]
DeleteRowsArgs ==
    [match_column_names : MatchColumnNames, match_values_list : MatchValuesLists,
     return_column_names : ReturnColumnNames]
DeleteRowArgs ==
    [match_column_names : MatchColumnNames, match_values : MatchValues,
     return_column_names : ReturnColumnNames]
StartRecordsArgs ==
    [values : {[i \in 1..n |-> IF i % 2 = 1 THEN "x" ELSE "y"] : n \in 0..MaxBatch},
     record_start : {"t2"}]
EndRecordsArgs ==
    [record_ids : {[i \in 1..n |-> RecordIds[i]] : n \in 0..MaxBatch}, record_end : {"t2"}]
ComposeArgs ==
    [select_column_names : SelectColumnNames, insert_column_names : InsertColumnNames,
     update_column_names : {<<"record_end">>, <<"name", "record_end">>},
     match_column_names : MatchColumnNames \cup {Some(<<"record_id", "name">>)},
     return_column_names : ReturnColumnNames]

Row(id, name, start, end) ==
    [record_id |-> id, name |-> name, record_start |-> start, record_end |-> end]
ClientTables ==
    {{}, {Row("1", "x", "t1", Null)}, {Row("1", "x", "t1", "t1"), Row("2", "y", "t1", Null)}}

NoRequest == [op |-> "none"]

ClientIdle ==
    /\ stored = {}
    /\ request = NoRequest
    /\ reply = Started({})

DiffIdle ==
    /\ current = EmptyTable(<<>>, {})
    /\ updates = EmptyTable(<<>>, {})
    /\ result = NotCalled

ScdIdle ==
    /\ index_column_names = <<>>
    /\ records = {}
    /\ next_record_id = 1
    /\ call = NoCall
    /\ in_order = TRUE

InitSCD ==
    /\ index_column_names \in {KeyNames1, KeyNames2, KeyNames3}
    /\ records = {}
    /\ next_record_id = 1
    /\ call = NoCall
    /\ in_order = TRUE
    /\ DiffIdle
    /\ RunIdle
    /\ ClientIdle

\* update_time is None (the clock is read) or supplied (the clock is not read)
UpdateTimes ==
    {<< <<>>, c >> : c \in TimesFor(index_column_names)}
    \cup {<< <<t>>, 1 >> : t \in TimesFor(index_column_names)}

NextSCD ==
    \E update_values \in ScdUpdates, ut \in UpdateTimes,
       connection \in ConnectionsFor(index_column_names),
       fail \in FailuresFor(index_column_names) :
       UpdateRecords(update_values, ut[1], ut[2], connection, fail)

SpecSCD == InitSCD /\ [][NextSCD]_vars

\* ---- compare_dataframes on its own
InitDiff ==
    /\ current \in DiffCurrents
    /\ updates \in DiffUpdates(current)
    /\ result = NotCalled
    /\ ScdIdle
    /\ RunIdle
    /\ ClientIdle

CompareDataframes ==
    /\ result = NotCalled
    /\ result' = compare_dataframes(current, updates)
    /\ UNCHANGED <<current, updates>>
    /\ UNCHANGED scdVars
    /\ UNCHANGED runVars
    /\ UNCHANGED clientVars

NextDiff == CompareDataframes

SpecDiff == InitDiff /\ [][NextDiff]_vars

\* ---- update_tc_data, one run after another
InitRun ==
    /\ tc \in Remotes
    /\ pc = "connect"
    /\ step = 0
    /\ conn = "none"
    /\ store = [committed |-> EmptySchema, txn |-> EmptySchema]
    /\ before = EmptySchema
    /\ next_update_id = 1
    /\ locals = NoLocals
    /\ err = "none"
    /\ raised = "none"
    /\ trace = <<>>
    /\ runs = 1
    /\ DiffIdle
    /\ ScdIdle
    /\ ClientIdle

Logged(op, table, connection, fail) ==
    trace' = Append(trace, [op |-> op, table |-> table, connection |-> connection, ok |-> ~fail])

\* an exception inside the try block: control goes to the except clause
Except(e) ==
    /\ err' = e
    /\ pc' = "rollback"
    /\ UNCHANGED <<step, conn, store, next_update_id, locals, raised>>

\* an exception outside the try block leaves update_tc_data as it is
Escapes(e) ==
    /\ err' = IF err = "none" THEN e ELSE err
    /\ raised' = e
    /\ pc' = "done"
    /\ UNCHANGED <<step, conn, store, next_update_id, locals>>

\* line 45: connection = pg_client.connect()
Connect(fail) ==
    /\ pc = "connect"
    /\ Logged("connect", "", "run", fail)
    /\ IF fail
       THEN Escapes("ConnectError")
       ELSE /\ conn' = "open"
            /\ store' = [store EXCEPT !.txn = store.committed]
            /\ pc' = "try"
            /\ step' = 1
            /\ UNCHANGED <<next_update_id, locals, err, raised>>
    /\ UNCHANGED <<tc, before, runs, diffVars, scdVars, clientVars>>

\* lines 50-58: the run row is inserted and its update_id read back
InsertRunRow(fail) ==
    /\ pc = "try"
    /\ Body[step].op = "insert_row"
    /\ Logged("insert_row", "updates", ConnectionArg("updates"), fail)
    /\ IF fail
       THEN Except("StoreError")
       ELSE /\ store' = execute(store, next_update_id, FALSE, ConnectionArg("updates"))
            /\ locals' = [locals EXCEPT !.update_id = next_update_id]
            /\ next_update_id' = next_update_id + 1
            /\ step' = step + 1
            /\ UNCHANGED <<pc, conn, err, raised>>
    /\ UNCHANGED <<tc, before, runs, diffVars, scdVars, clientVars>>

\* what a fetch leaves in the local variables: the frame (two frames for the
\* children), and the index of the schools and of the sessions as fetched
Fetched(table) ==
    CASE table = "schools" ->
           [locals EXCEPT !.frames.schools = fetch_school_data(tc),
                          !.school_ids = Index(fetch_school_data(tc))]
      [] table = "classrooms" ->
           [locals EXCEPT !.frames.classrooms = fetch_classroom_data(tc, locals.school_ids),
                          !.args = Handed(table, locals.school_ids)]
      [] table = "sessions" ->
           [locals EXCEPT !.frames.sessions = fetch_session_data(tc, locals.school_ids),
                          !.session_ids = Index(fetch_session_data(tc, locals.school_ids)),
                          !.args = Handed(table, locals.school_ids)]
      [] table = "users" ->
           [locals EXCEPT !.frames.users = fetch_user_data(tc, locals.school_ids),
                          !.args = Handed(table, locals.school_ids)]
      [] table = "children" ->
           [locals EXCEPT
              !.frames.children = fetch_child_data(tc, locals.school_ids).children,
              !.frames.children_parents = fetch_child_data(tc, locals.school_ids).children_parents,
              !.args = Handed(table, locals.school_ids)]
      [] table = "classrooms_children" ->
           [locals EXCEPT !.frames.classrooms_children =
                             fetch_classroom_child_data(tc, locals.session_ids),
                          !.args = Handed(table, locals.session_ids)]

\* the statuses of a response that is not 200
BadStatuses == {404, 500}

\* the numbers of the calls of request in one fetch (two per school at most),
\* and 0
RequestNumbers == 0..4

\* a request that sends the GET again when the response is not 200
tc_request_retry(status) ==
    [raised |-> status # 200, gets |-> IF status # 200 THEN 2 ELSE 1]

\* TransparentClassroomClient.request: one requests.get, and an exception
\* when the status of the response is not 200
tc_request(status) == [raised |-> status # 200, gets |-> 1]

\* the calls of request a fetch_* function makes when every response is 200:
\* one for the schools, one per school or session otherwise, two per school
\* for the children
RequestCalls(table) ==
    CASE table = "schools" -> 1
      [] table = "children" -> 2 * Cardinality(locals.school_ids)
      [] table = "classrooms_children" -> Cardinality(locals.session_ids)
      [] OTHER -> Cardinality(locals.school_ids)

\* lines 64-65, 80, 100-106, 121, 141, 173: a fetch from Transparent
\* Classroom; bad is the number of the call of request whose response has
\* the status `status` instead of 200 (0: none), which ends the fetch
Fetch(bad, status) ==
    /\ pc = "try"
    /\ Body[step].op = "fetch"
    /\ LET table == Body[step].table
           calls == IF bad = 0 THEN RequestCalls(table) ELSE bad
           last == tc_request(IF bad = 0 THEN 200 ELSE status)
           fail == bad # 0 /\ last.raised
       IN /\ bad <= RequestCalls(table)
          /\ trace' = Append(trace,
                             [op |-> "fetch", table |-> table, connection |-> "none",
                              ok |-> ~fail, calls |-> calls,
                              status |-> IF bad = 0 THEN 200 ELSE status,
                              gets |-> IF calls = 0 THEN 0
                                       ELSE (calls - 1) * tc_request(200).gets + last.gets])
          /\ IF fail
             THEN Except("FetchError")
             ELSE /\ locals' = Fetched(table)
                  /\ step' = step + 1
                  /\ UNCHANGED <<pc, conn, store, next_update_id, err, raised>>
    /\ UNCHANGED <<tc, before, runs, diffVars, scdVars, clientVars>>

\* lines 67-78 and alike: the frame is stamped and inserted; what
\* insert_dataframe raises on a frame of this many rows (none, or one or more)
\* whatever the store does is raised here
Insert(fail) ==
    /\ pc = "try"
    /\ Body[step].op = "insert"
    /\ LET table == Body[step].table
           rows == locals.frames[table]
           values == IF rows = {} THEN <<>> ELSE << <<"x">> >>
           own == insert_dataframe({}, <<"name">>, values, "caller", 0).raised
       IN /\ Logged("insert", table, ConnectionArg(table), fail \/ own # "none")
          /\ IF own # "none"
             THEN ~fail /\ Except(own)
             ELSE IF fail
             THEN Except("StoreError")
             ELSE /\ store' = executemany(store, Stamp(table, rows, locals.update_id),
                                          ConnectionArg(table))
                  /\ step' = step + 1
                  /\ UNCHANGED <<pc, conn, next_update_id, locals, err, raised>>
    /\ UNCHANGED <<tc, before, runs, diffVars, scdVars, clientVars>>

\* lines 193-202: update_end is written to the run row
UpdateRunRow(fail) ==
    /\ pc = "try"
    /\ Body[step].op = "update_row"
    /\ Logged("update_row", "updates", ConnectionArg("updates"), fail)
    /\ IF fail
       THEN Except("StoreError")
       ELSE /\ store' = execute(store, locals.update_id, TRUE, ConnectionArg("updates"))
            /\ pc' = "commit"
            /\ step' = step + 1
            /\ UNCHANGED <<conn, next_update_id, locals, err, raised>>
    /\ UNCHANGED <<tc, before, runs, diffVars, scdVars, clientVars>>

\* line 214: connection.commit(), after the try statement
Commit(fail) ==
    /\ pc = "commit"
    /\ Logged("commit", "", "run", fail)
    /\ IF fail
       THEN Escapes("CommitError")
       ELSE /\ store' = [store EXCEPT !.committed = store.txn]
            /\ pc' = "close"
            /\ UNCHANGED <<step, conn, next_update_id, locals, err, raised>>
    /\ UNCHANGED <<tc, before, runs, diffVars, scdVars, clientVars>>

\* line 215: connection.close(), and update_tc_data returns
Close(fail) ==
    /\ pc = "close"
    /\ Logged("close", "", "run", fail)
    /\ IF fail
       THEN Escapes("CloseError")
       ELSE /\ conn' = "closed"
            /\ pc' = "done"
            /\ UNCHANGED <<step, store, next_update_id, locals, err, raised>>
    /\ UNCHANGED <<tc, before, runs, diffVars, scdVars, clientVars>>

\* line 210: connection.rollback() in the except clause
Rollback(fail) ==
    /\ pc = "rollback"
    /\ Logged("rollback", "", "run", fail)
    /\ IF fail
       THEN Escapes("RollbackError")
       ELSE /\ store' = [store EXCEPT !.txn = store.committed]
            /\ pc' = "except_close"
            /\ UNCHANGED <<step, conn, next_update_id, locals, err, raised>>
    /\ UNCHANGED <<tc, before, runs, diffVars, scdVars, clientVars>>

\* lines 211-212: connection.close() and raise(err) in the except clause
ExceptClose(fail) ==
    /\ pc = "except_close"
    /\ Logged("close", "", "run", fail)
    /\ IF fail
       THEN Escapes("CloseError")
       ELSE /\ conn' = "closed"
            /\ raised' = err
            /\ pc' = "done"
            /\ UNCHANGED <<step, store, next_update_id, locals, err>>
    /\ UNCHANGED <<tc, before, runs, diffVars, scdVars, clientVars>>

\* update_tc_data is called again; what a connection left open had not
\* committed is lost with it
CallUpdateTcData ==
    /\ pc = "done"
    /\ runs < MaxRuns
    /\ tc' \in Remotes
    /\ pc' = "connect"
    /\ step' = 0
    /\ conn' = "none"
    /\ store' = [store EXCEPT !.txn = store.committed]
    /\ before' = store.committed
    /\ locals' = NoLocals
    /\ err' = "none"
    /\ raised' = "none"
    /\ trace' = <<>>
    /\ runs' = runs + 1
    /\ UNCHANGED <<next_update_id, diffVars, scdVars, clientVars>>

NextRun ==
    \/ \E fail \in BOOLEAN : Connect(fail)
    \/ \E fail \in BOOLEAN : InsertRunRow(fail)
    \/ \E bad \in RequestNumbers, status \in BadStatuses : Fetch(bad, status)
    \/ \E fail \in BOOLEAN : Insert(fail)
    \/ \E fail \in BOOLEAN : UpdateRunRow(fail)
    \/ \E fail \in BOOLEAN : Commit(fail)
    \/ \E fail \in BOOLEAN : Close(fail)
    \/ \E fail \in BOOLEAN : Rollback(fail)
    \/ \E fail \in BOOLEAN : ExceptClose(fail)
    \/ CallUpdateTcData

SpecRun == InitRun /\ [][NextRun]_vars

\* the arguments an operation is offered, and the operation applied to them
ArgsOf(op) ==
    CASE op = "select_rows" -> SelectRowsArgs
      [] op = "select_row" -> SelectRowArgs
      [] op = "insert_rows" -> InsertRowsArgs
      [] op = "insert_row" -> InsertRowArgs
      [] op = "update_rows" -> UpdateRowsArgs
      [] op = "update_row" -> UpdateRowArgs
      [] op = "delete_rows" -> DeleteRowsArgs
      [] op = "delete_row" -> DeleteRowArgs
      [] op = "start_records" -> StartRecordsArgs
      [] op = "end_records" -> EndRecordsArgs

Apply(op, tbl, a, connection, fail) ==
    CASE op = "select_rows" -> select_rows(tbl, a, connection, fail)
      [] op = "select_row" -> select_row(tbl, a, connection, fail)
      [] op = "insert_rows" -> insert_rows(tbl, a, connection, fail)
      [] op = "insert_row" -> insert_row(tbl, a, connection, fail)
      [] op = "update_rows" -> update_rows(tbl, a, connection, fail)
      [] op = "update_row" -> update_row(tbl, a, connection, fail)
      [] op = "delete_rows" -> delete_rows(tbl, a, connection, fail)
      [] op = "delete_row" -> delete_row(tbl, a, connection, fail)
      [] op = "start_records" -> client_start_records(tbl, a, connection, fail)
      [] op = "end_records" -> client_end_records(tbl, a, connection, fail)

\* ---- one client operation on one table
InitClient ==
    /\ stored \in ClientTables
    /\ request = NoRequest
    /\ reply = Started(stored)
    /\ DiffIdle
    /\ ScdIdle
    /\ RunIdle

\* the call is made and returns or raises; the caller of an operation that
\* was given the caller's connection commits if it returned and rolls back if
\* it raised; fail is the number of the statement the store fails (0: none)
Called(op, a, connection, fail, acc) ==
    /\ request = NoRequest
    /\ fail = 0 \/ acc.raised = "StoreError"
    /\ request' = [op |-> op, a |-> a, connection |-> connection, fail |-> fail]
    /\ reply' = acc
    /\ stored' = IF connection = "caller"
                 THEN IF acc.raised = "none" THEN acc.tbl ELSE stored
                 ELSE acc.committed
    /\ UNCHANGED <<diffVars, scdVars, runVars>>

Connections == {"auto", "caller"}
StatementFailures == 0..MaxBatch

SelectRows ==
    \E a \in SelectRowsArgs, connection \in Connections, fail \in StatementFailures :
        Called("select_rows", a, connection, fail, select_rows(stored, a, connection, fail))
SelectRow ==
    \E a \in SelectRowArgs, connection \in Connections, fail \in StatementFailures :
        Called("select_row", a, connection, fail, select_row(stored, a, connection, fail))
InsertRows ==
    \E a \in InsertRowsArgs, connection \in Connections, fail \in StatementFailures :
        Called("insert_rows", a, connection, fail, insert_rows(stored, a, connection, fail))
InsertRow ==
    \E a \in InsertRowArgs, connection \in Connections, fail \in StatementFailures :
        Called("insert_row", a, connection, fail, insert_row(stored, a, connection, fail))
UpdateRows ==
    \E a \in UpdateRowsArgs, connection \in Connections, fail \in StatementFailures :
        Called("update_rows", a, connection, fail, update_rows(stored, a, connection, fail))
UpdateRow ==
    \E a \in UpdateRowArgs, connection \in Connections, fail \in StatementFailures :
        Called("update_row", a, connection, fail, update_row(stored, a, connection, fail))
DeleteRows ==
    \E a \in DeleteRowsArgs, connection \in Connections, fail \in StatementFailures :
        Called("delete_rows", a, connection, fail, delete_rows(stored, a, connection, fail))
DeleteRow ==
    \E a \in DeleteRowArgs, connection \in Connections, fail \in StatementFailures :
        Called("delete_row", a, connection, fail, delete_row(stored, a, connection, fail))
StartRecords ==
    \E a \in StartRecordsArgs, connection \in Connections, fail \in StatementFailures :
        Called("start_records", a, connection, fail,
               client_start_records(stored, a, connection, fail))
EndRecords ==
    \E a \in EndRecordsArgs, connection \in Connections, fail \in StatementFailures :
        Called("end_records", a, connection, fail,
               client_end_records(stored, a, connection, fail))

\* the four compose_..._sql methods called on their own
ComposeSql ==
    \E a \in ComposeArgs :
        \/ Called("compose_select_sql", a, "caller", 0,
                  Composed(Started(stored),
                           compose_select_sql(a.select_column_names, a.match_column_names)))
        \/ Called("compose_insert_sql", a, "caller", 0,
                  Composed(Started(stored),
                           compose_insert_sql(a.insert_column_names, a.return_column_names)))
        \/ Called("compose_update_sql", a, "caller", 0,
                  Composed(Started(stored),
                           compose_update_sql(a.update_column_names, a.match_column_names,
                                              a.return_column_names)))
        \/ Called("compose_delete_sql", a, "caller", 0,
                  Composed(Started(stored),
                           compose_delete_sql(a.match_column_names, a.return_column_names)))

NextClient ==
    \/ SelectRows
    \/ SelectRow
    \/ InsertRows
    \/ InsertRow
    \/ UpdateRows
    \/ UpdateRow
    \/ DeleteRows
    \/ DeleteRow
    \/ StartRecords
    \/ EndRecords
    \/ ComposeSql

SpecClient == InitClient /\ [][NextClient]_vars

\* ========================================================================
\* Claims about compare_dataframes (SpecDiff)
\* ========================================================================
ResultKeys == [new |-> DOMAIN result.new_rows, deleted |-> DOMAIN result.deleted_rows,
               changed |-> DOMAIN result.changed_rows, unchanged |-> DOMAIN result.unchanged_rows]

\* C8: whenever compare_dataframes returns, the key sets of new, deleted,
\* changed and unchanged are pairwise disjoint and their union is
\* current.keys \cup updates.keys.
DiffCompleteness ==
    result.raised = "none" =>
        /\ \A a, b \in DOMAIN ResultKeys : a # b => ResultKeys[a] \cap ResultKeys[b] = {}
        /\ UNION {ResultKeys[a] : a \in DOMAIN ResultKeys} = Keys(current) \cup Keys(updates)

\* C8: the call returned on two non-empty tables with disjoint key sets
DiffDisjointWitness ==
    /\ result.raised = "none"
    /\ Keys(current) # {}
    /\ Keys(updates) # {}
    /\ Keys(current) \cap Keys(updates) = {}

\* the classification the specification states: a common key is changed when
\* some column differs, a null being a value like any other
StatedChanged(cur, upd) ==
    {k \in Keys(cur) \cap Keys(upd) : \E c \in cur.cols : cur.rows[k][c] # upd.rows[k][c]}

\* C9: new = rows of updates with a key absent from current, deleted = rows of
\* current with a key absent from updates, changed = rows of updates for the
\* common keys with a differing column, unchanged = rows of updates for the
\* common keys with every column equal.
DiffClassification ==
    result.raised = "none" =>
        /\ result.new_rows = Loc(updates, Keys(updates) \ Keys(current), updates.cols)
        /\ result.deleted_rows = Loc(current, Keys(current) \ Keys(updates), current.cols)
        /\ result.changed_rows = Loc(updates, StatedChanged(current, updates), updates.cols)
        /\ result.unchanged_rows =
              Loc(updates, (Keys(current) \cap Keys(updates)) \ StatedChanged(current, updates),
                  updates.cols)

\* ========================================================================
\* Claims about update_records (SpecSCD)
\* ========================================================================
RowsOf(recs, k) == {r \in recs : r.key = k}
KeysIn(recs) == {r.key : r \in recs}

\* the inputs of one call
ScdCalls ==
    {[update_values |-> u, update_time |-> ut[1], utcnow |-> ut[2], connection |-> c, fail |-> f]
       : u \in ScdUpdates, ut \in UpdateTimes, c \in ConnectionsFor(index_column_names),
         f \in FailuresFor(index_column_names)}

\* this step is the call `in` of update_records
IsCall(in) == UpdateRecords(in.update_values, in.update_time, in.utcnow, in.connection, in.fail)

\* C3: every natural key has at most one row with record_end = NULL.
SingleCurrent ==
    \A r1, r2 \in records : (IsOpen(r1) /\ IsOpen(r2) /\ r1.key = r2.key) => r1 = r2

\* C3: a key was changed: it has a closed row and an open one
SingleCurrentWitness ==
    \E r1, r2 \in records : r1.key = r2.key /\ ~IsOpen(r1) /\ IsOpen(r2) /\ r1.vals # r2.vals

\* a row's interval [record_start, record_end), an OPEN row's end being after
\* every timestamp
Before(r1, r2) == ~IsOpen(r1) /\ r1.record_end[1] <= r2.record_start

NonOverlapping(recs) ==
    \A r1, r2 \in recs : (r1.key = r2.key /\ r1 # r2) => (Before(r1, r2) \/ Before(r2, r1))

\* no closed row is followed by a later row of its key without one starting
\* where it ends
Gapless(recs) ==
    \A r \in recs : ~IsOpen(r) =>
        \/ \A r2 \in RowsOf(recs, r.key) \ {r} : ~Before(r, r2)
        \/ \E r2 \in RowsOf(recs, r.key) \ {r} : r2.record_start = r.record_end[1]

\* C4 as stated: after any sequence of update_records calls the intervals of
\* every natural key are non-overlapping and gapless, also when a key is
\* deleted and reappears and when the callers supply the timestamps.
ScdIntervalsOriginal == NonOverlapping(records) /\ Gapless(records)

\* the rows of new that old does not hold under any record_id
Inserted(old, new) == {n \in new : \A o \in old : o.record_id # n.record_id}

\* a changed key's new version starts where the version it replaces ends
ChangedSuccessorContiguous ==
    call'.raised = "none" =>
        \A r \in records : (IsOpen(r) /\ r \notin records') =>
            \/ r.key \notin KeysIn(Inserted(records, records'))
            \/ \E n \in Inserted(records, records'), c \in records' :
                  /\ n.key = r.key /\ c.record_id = r.record_id
                  /\ c.record_end = <<n.record_start>>

\* C4 amended: as long as no call uses a timestamp earlier than one already
\* stored, the intervals of every natural key are non-overlapping and no row
\* ends before it starts; and in every call that returns, the new version of a
\* changed key starts exactly where the version it replaces ends (a gap is left
\* only where the key was absent).
ScdIntervalsInOrder ==
    /\ [](in_order => (NonOverlapping(records)
                       /\ \A r \in records : ~IsOpen(r) => r.record_start <= r.record_end[1]))
    /\ [][ChangedSuccessorContiguous]_vars

\* C4: every call's timestamp was in order, and a key that was deleted
\* reappeared later, leaving a gap between its two rows
ScdIntervalsWitness ==
    /\ in_order
    /\ \E r1, r2 \in records :
          r1.key = r2.key /\ ~IsOpen(r1) /\ IsOpen(r2) /\ r1.record_end[1] < r2.record_start

\* C5: a call with the update_values of the call before it, which returned,
\* finds only unchanged rows, sends no UPDATE and no INSERT, and leaves the
\* table as it was, whatever its timestamp.
IdempotentResync ==
    [][(call'.op = "update_records" /\ call'.resync)
          => LET d == compare_dataframes(current_values(records, index_column_names),
                                         call.update_values)
             IN /\ DOMAIN d.new_rows = {} /\ DOMAIN d.deleted_rows = {}
                /\ DOMAIN d.changed_rows = {}
                /\ DOMAIN d.unchanged_rows = Keys(call.update_values)
                /\ records' = records
                /\ next_record_id' = next_record_id
                /\ call'.raised = "none"
                /\ call'.statements = <<"SELECT">>]_vars

\* C5: the second of two calls with the same non-empty update_values returned
IdempotentResyncWitness ==
    /\ call.resync
    /\ call.raised = "none"
    /\ Keys(call.update_values) # {}
    /\ \E r \in records : IsOpen(r)

\* the diff as the specification states it
StatedDiff(cur, upd) ==
    [new |-> Keys(upd) \ Keys(cur), deleted |-> Keys(cur) \ Keys(upd),
     changed |-> StatedChanged(cur, upd),
     unchanged |-> (Keys(cur) \cap Keys(upd)) \ StatedChanged(cur, upd)]

\* C6: a call that returns sets record_end on exactly the OPEN records whose
\* key is changed or deleted, inserts exactly one OPEN record, with the payload
\* of updates, for every changed or new key, and neither ends nor inserts
\* anything for an unchanged key.
UpdateRecordsTransition ==
    [][\A in \in ScdCalls : (IsCall(in) /\ call'.raised = "none") =>
          LET D == StatedDiff(current_values(records, index_column_names), in.update_values)
              inserted == Inserted(records, records')
          IN /\ \A r \in records :
                   LET c == CHOOSE x \in records' : x.record_id = r.record_id
                   IN IF IsOpen(r) /\ r.key \in D.changed \cup D.deleted
                      THEN ~IsOpen(c) ELSE c = r
             /\ \A k \in D.changed \cup D.new :
                   /\ Cardinality(RowsOf(inserted, k)) = 1
                   /\ \A n \in RowsOf(inserted, k) :
                         IsOpen(n) /\ n.vals = in.update_values.rows[k]
             /\ KeysIn(inserted) = D.changed \cup D.new]_vars

\* C7: no row is ever deleted; the key, the payload and the record_start of a
\* row never change; a record_end that is set never changes.
AppendOnly ==
    [][\A r \in records : \E c \in records' :
          /\ c.record_id = r.record_id /\ c.key = r.key /\ c.vals = r.vals
          /\ c.record_start = r.record_start
          /\ ~IsOpen(r) => c.record_end = r.record_end]_vars

\* C7: the table holds a closed row and a row inserted after it was closed
AppendOnlyWitness ==
    \E r1, r2 \in records : ~IsOpen(r1) /\ r2.record_id > r1.record_id /\ ~IsOpen(r2)

\* the tables compare_dataframes must refuse
ShapesDiffer(names, cols) ==
    Range(names) # Range(index_column_names) \/ cols # value_column_names

\* C10: a call whose update_values have other key names or other columns than
\* the table raises ValueError after the SELECT, before any UPDATE or INSERT,
\* and the table stays as it was.
DifferPrecondition ==
    [][(call'.op = "update_records" /\ ShapesDiffer(call'.names, call'.cols))
          => /\ call'.raised = "ValueError"
             /\ call'.statements = <<"SELECT">>
             /\ records' = records
             /\ next_record_id' = next_record_id]_vars

\* C10: a call raised ValueError on a table that holds rows
DifferPreconditionWitness ==
    /\ call.raised = "ValueError"
    /\ \E r \in records : IsOpen(r)

\* C24: a call of update_records that returned and was given an update table
\* with the table's key names and value columns and no row leaves every row
\* that was open closed with record_end = the call's timestamp, every other
\* row as it was and no new row: no row is open afterwards
EmptyUpdateSet ==
    [][(/\ call'.op = "update_records"
        /\ call'.raised = "none"
        /\ call'.names = index_column_names
        /\ call'.cols = value_column_names
        /\ DOMAIN call'.update_values.rows = {})
       => /\ records' = {IF IsOpen(r) THEN [r EXCEPT !.record_end = <<call'.update_time>>] ELSE r
                           : r \in records}
          /\ \A r \in records' : ~IsOpen(r)
          /\ next_record_id' = next_record_id]_vars

\* an empty update table closed at time 2 the rows of two children opened at
\* time 1, or the row of a school
EmptyUpdateSetWitness ==
    /\ call.op = "update_records"
    /\ call.raised = "none"
    /\ call.names = index_column_names
    /\ DOMAIN call.update_values.rows = {}
    /\ call.statements = <<"SELECT", "UPDATE">>
    /\ records # {}
    /\ \A r \in records : r.record_end = <<call.update_time>>
    /\ \/ Cardinality(records) = 2
       \/ \E r \in records : r.record_start < call.update_time

\* the rows a step closed
Ended(old, new) ==
    {r \in new : ~IsOpen(r) /\ \E o \in old : o.record_id = r.record_id /\ IsOpen(o)}

\* C25: in one call of update_records every record_end set and every
\* record_start inserted is the call's one timestamp (the supplied
\* update_time, or the clock read once), so that the row closed for a key and
\* the row opened for it meet; and the UPDATE of end_records is sent before
\* the INSERT of start_records
SharedAsOf ==
    [][call'.op = "update_records"
       => /\ \A r \in Ended(records, records') : r.record_end = <<call'.update_time>>
          /\ \A r \in Inserted(records, records') : r.record_start = call'.update_time
          /\ \A o \in Ended(records, records'), r \in Inserted(records, records') :
                 o.key = r.key => o.record_end = <<r.record_start>>
          /\ \A i, j \in DOMAIN call'.statements :
                 (call'.statements[i] = "UPDATE" /\ call'.statements[j] = "INSERT") => i < j]_vars

\* a school renamed at time 2: its row of time 1 ends at 2 and its new row
\* starts at 2, the UPDATE sent before the INSERT
SharedAsOfWitness ==
    /\ call.op = "update_records"
    /\ call.update_time = 2
    /\ call.statements = <<"SELECT", "UPDATE", "INSERT">>
    /\ \E o, r \in records :
           /\ o.key = r.key
           /\ o.record_start = 1
           /\ o.record_end = <<2>>
           /\ r.record_start = 2
           /\ IsOpen(r)
           /\ o.vals # r.vals

\* C27: a call of update_records that raised because the store failed a
\* statement leaves the table as it was before the call, in either connection
\* mode: no row the call ended is closed in the committed table
UpdateRecordsAtomic ==
    [][(call'.op = "update_records" /\ call'.raised = "StoreError")
       => /\ Ended(records, records') = {}
          /\ records' = records]_vars

\* with the caller's connection a call whose INSERT failed after its UPDATE
\* was sent left the open row open
UpdateRecordsRolledBack ==
    /\ call.op = "update_records"
    /\ call.raised = "StoreError"
    /\ call.statements = <<"SELECT", "UPDATE", "INSERT">>
    /\ \A r \in records : IsOpen(r)
    /\ records # {}

\* ========================================================================
\* Claims about update_tc_data (SpecRun)
\* ========================================================================
Tagged(schema, update_id) ==
    {u \in schema.updates : u.update_id = update_id}
    \cup {r \in schema.rows : r.update_id = update_id}

\* the entity tables persisted so far in the run
Persisted == {Body[i].table : i \in {j \in 1..(step - 1) : Body[j].op = "insert"}}

\* a fetch or a store call failed after the run row was inserted and before
\* all of the entity tables were persisted
FailedMidRun ==
    /\ err \in {"FetchError", "StoreError", "TypeError"}
    /\ locals.update_id # 0
    /\ Persisted # EntityTables

\* C1: from a fetch or store failure after the run row was inserted and N < 7
\* entity tables were persisted, the committed store holds no row tagged with
\* the run's update_id, in no entity table and not in updates: it is as it was
\* before the run.
AtomicRun ==
    FailedMidRun => /\ Tagged(store.committed, locals.update_id) = {}
                    /\ store.committed = before

\* C1: a store failure after three entity tables were persisted, in a run
\* after one that committed, and update_tc_data has raised
AtomicRunWitness ==
    /\ FailedMidRun
    /\ err = "StoreError"
    /\ Cardinality(Persisted) = 3
    /\ pc = "done"
    /\ raised = "StoreError"
    /\ before.rows # {}

\* the calls of the run that raised
Failures == {i \in DOMAIN trace : ~trace[i].ok}

\* C2: whenever update_tc_data ends in an exception raised by an entity fetch
\* or insert, by the update of the run row, by the commit or by the close (and
\* by no other call), rollback and then close were called on the connection,
\* the connection is closed, and the exception is the original one.
ExceptionHandling ==
    (/\ pc = "done"
     /\ raised # "none"
     /\ Cardinality(Failures) = 1
     /\ \A i \in Failures : trace[i].op \in {"fetch", "insert", "update_row", "commit", "close"})
    => /\ conn = "closed"
       /\ \E i \in DOMAIN trace : /\ trace[i].op = "rollback" /\ trace[i].ok
                                  /\ \E j \in DOMAIN trace : j > i /\ trace[j].op = "close"
                                                             /\ trace[j].ok
       /\ store.txn = store.committed
       /\ raised = err

\* the positions in the trace of the calls op (on table, if one is given)
Calls(op) == {i \in DOMAIN trace : trace[i].op = op}
Done(op, table) == {i \in DOMAIN trace : trace[i].op = op /\ trace[i].table = table /\ trace[i].ok}

\* C11: in a run, commit is called at most once, and only after the run row
\* was inserted, each of the seven entity tables was persisted and update_end
\* was written; close never comes before the commit and a run that returns
\* ends with commit, close; rollback and commit are never both called.
RunOrdering ==
    /\ Cardinality(Calls("commit")) <= 1
    /\ \A c \in Calls("commit") :
          /\ \E i \in Done("insert_row", "updates") : i < c
          /\ \A t \in EntityTables : \E i \in Done("insert", t) : i < c
          /\ \E i \in Done("update_row", "updates") :
                /\ i < c
                /\ \A t \in EntityTables : \E j \in Done("insert", t) : j < i
          /\ \A i \in Calls("close") : i > c
    /\ (pc = "done" /\ raised = "none" /\ conn # "none") =>
          /\ Len(trace) >= 2
          /\ trace[Len(trace) - 1] = [op |-> "commit", table |-> "", connection |-> "run", ok |-> TRUE]
          /\ trace[Len(trace)] = [op |-> "close", table |-> "", connection |-> "run", ok |-> TRUE]
          /\ conn = "closed"
    /\ ~(Calls("commit") # {} /\ Calls("rollback") # {})

\* C11: a second run returned after commit and close
RunOrderingWitness ==
    /\ pc = "done"
    /\ raised = "none"
    /\ runs = 2
    /\ Calls("commit") # {}
    /\ Calls("close") # {}

\* the entity rows the run has inserted so far
InsertedRows == (store.txn.rows \cup store.committed.rows) \ before.rows

\* C12: every entity row the run has inserted carries the update_id that the
\* run's own insert into updates returned: an id no earlier run had, with its
\* run row in the same transaction; no row carries another id.
RunTagging ==
    \A r \in InsertedRows :
        /\ r.table \in EntityTables
        /\ locals.update_id # 0
        /\ r.update_id = locals.update_id
        /\ \E u \in store.txn.updates : u.update_id = r.update_id
        /\ \A u \in before.updates : u.update_id # r.update_id
        /\ \A b \in before.rows : b.update_id # r.update_id

\* C12: the second run, after one that committed, has inserted into all seven
\* entity tables
RunTaggingWitness ==
    /\ before.rows # {}
    /\ {r.table : r \in InsertedRows} = EntityTables
    /\ locals.update_id > 1

\* the FOREIGN KEY clauses and the tables they reach through other tables
RECURSIVE Ancestors(_)
Ancestors(table) == References(table) \cup UNION {Ancestors(t) : t \in References(table)}

\* C13: in a run, every insert into an entity table comes after the insert of
\* the run row and after the insert into every table that the table
\* references, directly or through another table.
DependencyOrder ==
    \A i \in Calls("insert") :
        /\ \E j \in Done("insert_row", "updates") : j < i
        /\ \A t \in Ancestors(trace[i].table) : \E j \in Done("insert", t) : j < i

\* C13: classrooms_children, which references three tables, was persisted
DependencyOrderWitness ==
    /\ Done("insert", "classrooms_children") # {}
    /\ Done("insert", "children_parents") # {}

\* C14: the ids handed to the classroom, session, user and child fetches are
\* the school keys as Transparent Classroom returned them, and the ids handed
\* to the classroom-child fetch are its (school_id, session_id) keys: one level
\* and two levels, with no update_id level.
PreStampKeys ==
    \A a \in locals.args :
        IF a.table = "classrooms_children"
        THEN /\ a.ids = fetch_session_data(tc, fetch_school_data(tc))
             /\ \A id \in a.ids : Len(id) = 2
        ELSE /\ a.table \in {"classrooms", "sessions", "users", "children"}
             /\ a.ids = fetch_school_data(tc)
             /\ \A id \in a.ids : Len(id) = 1

\* C14: all five downstream fetches were handed their ids, after the schools
\* and the sessions were stamped and inserted
PreStampKeysWitness ==
    /\ {a.table : a \in locals.args}
         = {"classrooms", "sessions", "users", "children", "classrooms_children"}
    /\ \E r \in store.txn.rows : r.table = "sessions" /\ r.update_id = locals.update_id
    /\ \A a \in locals.args : a.ids # {}

\* C23: every fetch made as many outbound requests as calls of request (a
\* response that is not 200 is not asked for again), a fetch failed exactly
\* when a response was not 200, and after a failed fetch the run makes no
\* call but rollback and close, the committed schema stays as it was before
\* the run, and a run that has ended has called rollback
UpstreamFailure ==
    \A i \in Calls("fetch") :
        /\ trace[i].gets = trace[i].calls
        /\ trace[i].ok <=> trace[i].status = 200
        /\ ~trace[i].ok =>
               /\ \A j \in (i + 1)..Len(trace) : trace[j].op \in {"rollback", "close"}
               /\ store.committed = before
               /\ pc \in {"rollback", "except_close", "done"}
               /\ pc # "rollback" => i + 1 \in Calls("rollback")
               /\ (pc = "done" /\ Len(trace) = i + 2 /\ trace[i + 2].ok)
                  => raised = "FetchError" /\ conn = "closed" /\ store.txn = before

\* the request for the sessions of the second school was answered 500 after
\* the schools and classrooms were inserted, and the run ended rolled back
UpstreamFailureWitness ==
    /\ pc = "done"
    /\ raised = "FetchError"
    /\ \E i \in Calls("fetch") :
           /\ trace[i].table = "sessions"
           /\ trace[i].status = 500
           /\ trace[i].calls = 2
    /\ Done("insert", "classrooms") # {}
    /\ Done("rollback", "") # {}
    /\ store.committed = before

\* C29: the insert of a frame without rows returns without raising, so
\* that no run is sent to its except clause by a frame without rows
EmptyInsertNoOp ==
    /\ \A i \in Calls("insert") : locals.frames[trace[i].table] = {} => trace[i].ok
    /\ err # "TypeError"

\* a run in which every frame had rows ended committed
NonEmptyInsertsCommitted ==
    /\ pc = "done"
    /\ raised = "none"
    /\ Done("commit", "") # {}
    /\ \A t \in EntityTables : locals.frames[t] # {}

\* ========================================================================
\* Claims about the operations of the store client (SpecClient)

\* the operations that send statements
ClientOps ==
    {"select_rows", "select_row", "insert_rows", "insert_row", "update_rows", "update_row",
     "delete_rows", "delete_row", "start_records", "end_records"}

\* the calls made on connection c, in order
CallsOn(c) ==
    LET on == SelectSeq(reply.events, LAMBDA e : e.on = c)
    IN [i \in DOMAIN on |-> on[i].call]

\* C15: an operation given the caller's connection sends every statement on
\* that connection and makes no call on it but opening a cursor (no commit, no
\* rollback, no close), whether it returns or raises, and opens no connection;
\* an operation given none sends every statement on a connection the client
\* opened, and when it returns each of these was opened, used, committed and
\* closed, in that order, so that the store holds what the statements did
ConnectionOwnership ==
    request.op \in ClientOps =>
        IF request.connection = "caller"
        THEN /\ \A i \in DOMAIN reply.statements : reply.statements[i].on.owner = "caller"
             /\ \A i \in DOMAIN reply.events :
                    /\ reply.events[i].on.owner = "caller"
                    /\ reply.events[i].call = "cursor"
        ELSE /\ \A i \in DOMAIN reply.statements : reply.statements[i].on.owner = "client"
             /\ \A i \in DOMAIN reply.events : reply.events[i].on.owner = "client"
             /\ reply.raised = "none" =>
                    /\ \A i \in DOMAIN reply.statements :
                           CallsOn(reply.statements[i].on)
                               = <<"connect", "cursor", "commit", "close">>
                    /\ stored = reply.tbl

\* an update of two rows with returned columns went out as two statements on
\* the caller's connection and returned
ConnectionOwnershipWitness ==
    /\ request.op = "update_rows"
    /\ request.connection = "caller"
    /\ reply.raised = "none"
    /\ Len(reply.statements) = 2
    /\ \E r \in stored : r.record_id = "2" /\ r.record_end = "y"

\* a deletion of two rows with returned columns went out on two connections of
\* the client and returned with both committed and closed
ConnectionOwnershipAuto ==
    /\ request.op = "delete_rows"
    /\ request.connection = "auto"
    /\ reply.raised = "none"
    /\ Len(reply.statements) = 2
    /\ reply.statements[1].on # reply.statements[2].on
    /\ stored = {}

\* an optional list that is None or empty
Absent(x) == ~x.some \/ Len(x.v) = 0

\* C16: select_row, update_row and delete_row called with match columns or
\* match values absent or empty raise ValueError with no statement composed,
\* no statement sent and no call made on any connection, and the store is as
\* it was before the call
FailFast ==
    [][(/\ request'.op \in {"select_row", "update_row", "delete_row"}
        /\ Absent(request'.a.match_column_names) \/ Absent(request'.a.match_values))
       => /\ reply'.raised = "ValueError"
          /\ reply'.composed = <<>>
          /\ reply'.statements = <<>>
          /\ reply'.events = <<>>
          /\ stored' = stored]_vars

\* update_row was given match columns and an empty list of match values, on a
\* table with rows, and raised ValueError
FailFastWitness ==
    /\ request.op = "update_row"
    /\ request.a.match_column_names = Some(<<"record_id">>)
    /\ request.a.match_values = Some(<<>>)
    /\ reply.raised = "ValueError"
    /\ stored # {}

\* C17: update_rows given match columns and a non-empty match_values_list
\* whose length differs from that of update_values_list raises, and sends no
\* statement
MismatchedBatchLengths ==
    (/\ request.op = "update_rows"
     /\ ~Absent(request.a.match_column_names)
     /\ ~Absent(request.a.match_values_list)
     /\ Len(request.a.match_values_list.v) # Len(request.a.update_values_list))
    => /\ reply.raised # "none"
       /\ reply.statements = <<>>

\* C18: start_records given no rows and end_records given no record ids
\* return without raising, compose and send no statement, make no call on any
\* connection, and leave the table as it was
EmptyInputNoOp ==
    [][(\/ request'.op = "start_records" /\ Len(request'.a.values) = 0
        \/ request'.op = "end_records" /\ Len(request'.a.record_ids) = 0)
       => /\ reply'.raised = "none"
          /\ reply'.composed = <<>>
          /\ reply'.statements = <<>>
          /\ reply'.events = <<>>
          /\ stored' = stored]_vars

\* end_records was given an empty list on a table with an open record
EmptyInputNoOpWitness ==
    /\ request.op = "end_records"
    /\ request.a.record_ids = <<>>
    /\ reply.raised = "none"
    /\ \E r \in stored : IsNa(r.record_end)

\* start_records was given no rows on a table with records
EmptyStartWitness ==
    /\ request.op = "start_records"
    /\ request.a.values = <<>>
    /\ reply.raised = "none"
    /\ stored # {}

\* the names listed in sql from position from to position to, without the commas
Names(sql, from, to) == SelectSeq(SubSeq(sql, from, to), LAMBDA t : t # ",")

\* C19: the statement of compose_select_sql (called on its own or by
\* select_rows / select_row) selects `*` exactly when select_column_names is
\* absent or empty and otherwise exactly the given columns in their order; it
\* has a WHERE clause exactly when match_column_names is non-empty, naming
\* the match columns in their order with one placeholder for each, and no
\* placeholder otherwise
ComposeSelect ==
    (request.op \in {"compose_select_sql", "select_rows", "select_row"}
     /\ Len(reply.composed) = 1)
    => LET sql == reply.composed[1]
           select == request.a.select_column_names
           match == request.a.match_column_names
           from == First(sql, "FROM")
       IN /\ sql[1] = "SELECT"
          /\ Holds(sql, "*") <=> Absent(select)
          /\ Names(sql, 2, from - 1) = IF Absent(select) THEN <<"*">> ELSE select.v
          /\ Holds(sql, "WHERE") <=> ~Absent(match)
          /\ Absent(match) => Count(sql, "%s") = 0 /\ Len(sql) = from + 3
          /\ ~Absent(match) =>
                 LET where == First(sql, "WHERE")
                     n == Len(match.v)
                 IN /\ where = from + 4
                    /\ Listed(sql, where) = match.v
                    /\ Count(sql, "%s") = n
                    /\ Listed(sql, where + 2 * n + 2) = [i \in 1..n |-> "%s"]

\* compose_select_sql was given two select columns and two match columns
ComposeSelectWitness ==
    /\ request.op = "compose_select_sql"
    /\ request.a.select_column_names = Some(<<"record_end", "record_id">>)
    /\ request.a.match_column_names = Some(<<"record_id", "name">>)
    /\ Count(reply.composed[1], "%s") = 2

\* compose_select_sql was given empty lists and composed SELECT * with no WHERE
ComposeSelectEmpty ==
    /\ request.op = "compose_select_sql"
    /\ request.a.select_column_names = Some(<<>>)
    /\ request.a.match_column_names = Some(<<>>)
    /\ reply.composed[1] = <<"SELECT", "*", "FROM", "schema_name", ".", "table_name">>

\* C20: the statement of compose_insert_sql (called on its own or by
\* insert_rows / insert_row) is INSERT ... DEFAULT VALUES exactly when
\* insert_column_names is absent or empty and otherwise lists the given
\* columns in their order with one placeholder for each; it has a RETURNING
\* clause exactly when return_column_names is non-empty, listing exactly
\* those columns in their order
ComposeInsert ==
    (request.op \in {"compose_insert_sql", "insert_rows", "insert_row"}
     /\ Len(reply.composed) = 1)
    => LET sql == reply.composed[1]
           insert == request.a.insert_column_names
           return == request.a.return_column_names
           n == Len(insert.v)
           end == IF Absent(insert) THEN 7 ELSE 4 * n + 8
       IN /\ SubSeq(sql, 1, 5) = <<"INSERT", "INTO", "schema_name", ".", "table_name">>
          /\ Holds(sql, "DEFAULT") <=> Absent(insert)
          /\ Absent(insert) => SubSeq(sql, 6, 7) = <<"DEFAULT", "VALUES">>
                               /\ Count(sql, "%s") = 0
          /\ ~Absent(insert) =>
                 /\ Listed(sql, 6) = insert.v
                 /\ sql[2 * n + 7] = "VALUES"
                 /\ Listed(sql, 2 * n + 8) = [i \in 1..n |-> "%s"]
                 /\ Count(sql, "%s") = n
          /\ Holds(sql, "RETURNING") <=> ~Absent(return)
          /\ Absent(return) => Len(sql) = end
          /\ ~Absent(return) =>
                 /\ sql[end + 1] = "RETURNING"
                 /\ Names(sql, end + 2, Len(sql)) = return.v

\* compose_insert_sql was given two insert columns and two return columns
ComposeInsertWitness ==
    /\ request.op = "compose_insert_sql"
    /\ request.a.insert_column_names = Some(<<"record_id", "name">>)
    /\ request.a.return_column_names = Some(<<"record_end", "record_id">>)
    /\ Count(reply.composed[1], "%s") = 2

\* compose_insert_sql was given empty lists and composed DEFAULT VALUES
ComposeInsertEmpty ==
    /\ request.op = "compose_insert_sql"
    /\ request.a.insert_column_names = Some(<<>>)
    /\ request.a.return_column_names = Some(<<>>)
    /\ reply.composed[1]
           = <<"INSERT", "INTO", "schema_name", ".", "table_name", "DEFAULT", "VALUES">>

\* the parameter tuples an update sent: one per execute when columns are
\* returned, the list given to the one executemany otherwise
TuplesSent ==
    IF ~Absent(request.a.return_column_names) \/ request.op = "update_row"
    THEN [i \in DOMAIN reply.statements |-> reply.statements[i].parameters.v]
    ELSE IF Len(reply.statements) = 0 THEN <<>> ELSE reply.statements[1].parameters.v

\* the WHERE clause of sql starts at position where, names the match columns
\* in order and has one placeholder for each; there is none when no match
\* column is given
WhereAsGiven(sql, where, match) ==
    /\ Holds(sql, "WHERE") <=> ~Absent(match)
    /\ ~Absent(match) =>
           /\ sql[where] = "WHERE"
           /\ Listed(sql, where) = match.v
           /\ Listed(sql, where + 2 * Len(match.v) + 2) = [i \in 1..Len(match.v) |-> "%s"]

UpdateParametersCompose ==
    /\ request.op = "compose_update_sql"
    /\ request.a.update_column_names = <<"name", "record_end">>
    /\ request.a.match_column_names = Some(<<"record_id", "name">>)
    /\ Count(reply.composed[1], "%s") = 4

\* the arguments that are lists of column names
NameFields ==
    {"select_column_names", "match_column_names", "insert_column_names",
     "update_column_names", "return_column_names"}
SameNames(a, b) == \A f \in DOMAIN a \cap NameFields : a[f] = b[f]

\* the words a statement may hold besides the names it was given
SqlWords ==
    {"SELECT", "*", "FROM", "WHERE", "INSERT", "INTO", "DEFAULT", "VALUES", "UPDATE", "SET",
     "DELETE", "RETURNING", "schema_name", "table_name", ".", ",", "(", ")", "=", "%s"}

\* C22: the statement an operation composes is the one every other call of
\* the operation with the same column-name lists composes, whatever the
\* values, the table and the connection; every statement sent is that
\* statement, and each of its tokens is a word of SQL, a placeholder or one of
\* the names given (start_records and end_records give their own), never a
\* value
StatementStability ==
    (request.op \in ClientOps /\ Len(reply.composed) = 1)
    => LET sql == reply.composed[1]
           given == UNION {Range(IF f = "update_column_names" THEN request.a[f]
                                 ELSE request.a[f].v) : f \in DOMAIN request.a \cap NameFields}
           own == IF request.op = "start_records" THEN {"name", "record_start"}
                  ELSE IF request.op = "end_records" THEN {"record_id", "record_end"}
                  ELSE {}
       IN /\ \A b \in ArgsOf(request.op), tbl \in ClientTables, connection \in Connections :
                 LET other == Apply(request.op, tbl, b, connection, 0)
                 IN (SameNames(request.a, b) /\ Len(other.composed) = 1)
                    => other.composed[1] = sql
          /\ \A i \in DOMAIN reply.statements : reply.statements[i].sql = sql
          /\ Range(sql) \subseteq SqlWords \cup given \cup own

\* update_rows sent, once per row, a statement holding neither "y" nor "2",
\* with these values in the parameters of the second
StatementStabilityWitness ==
    /\ request.op = "update_rows"
    /\ Len(reply.statements) = 2
    /\ reply.statements[1].sql = reply.statements[2].sql
    /\ reply.statements[2].parameters.v = <<"y", "2">>
    /\ reply.statements[1].parameters.v = <<"x", "1">>

\* C26: an update_rows that returned sent as many parameter tuples as
\* update_values_list has elements, when match columns and as many match
\* tuples are given and when neither match columns nor match values are
UpdateRowsTuples ==
    (/\ request.op = "update_rows"
     /\ reply.raised = "none"
     /\ \/ Absent(request.a.match_column_names) /\ Absent(request.a.match_values_list)
        \/ /\ ~Absent(request.a.match_column_names)
           /\ ~Absent(request.a.match_values_list)
           /\ Len(request.a.match_values_list.v) = Len(request.a.update_values_list))
    => Len(TuplesSent) = Len(request.a.update_values_list)

\* update_rows with two update tuples and two match tuples sent both
UpdateRowsScoped ==
    /\ request.op = "update_rows"
    /\ reply.raised = "none"
    /\ Len(request.a.update_values_list) = 2
    /\ ~Absent(request.a.match_values_list)
    /\ Len(TuplesSent) = 2

\* C28: in an operation given no connection, every connection the client
\* opened is closed by the time the operation has returned or raised, and a
\* connection whose statement failed is not committed
AutoCommitClosed ==
    (request.op \in ClientOps /\ request.connection = "auto")
    => \A i \in DOMAIN reply.events :
           reply.events[i].call = "connect"
           => LET on == CallsOn(reply.events[i].on)
              IN /\ on[Len(on)] = "close"
                 /\ reply.raised \in {"StoreError", "ProgrammingError", "IntegrityError",
                                      "TypeError"}
                    => (i = Len(reply.events) - 1 => ~Holds(on, "commit"))

\* the second statement of a select_rows failed in the store: the first
\* connection was committed and closed, the second not committed
AutoCommitFailed ==
    /\ request.op = "select_rows"
    /\ request.connection = "auto"
    /\ reply.raised = "StoreError"
    /\ CallsOn(Own(1)) = <<"connect", "cursor", "commit", "close">>
    /\ ~Holds(CallsOn(Own(2)), "commit")
    /\ Holds(CallsOn(Own(2)), "cursor")

\* C30: select_row, and insert_row, update_row and delete_row asked for
\* return columns, whose one statement the store ran, return without raising
\* and with one row at most, also when the statement gave no row
SingularReturn ==
    (/\ request.op \in {"select_row", "insert_row", "update_row", "delete_row"}
     /\ request.op = "select_row" \/ ~Absent(request.a.return_column_names)
     /\ Len(reply.statements) = 1
     /\ reply.raised \notin {"StoreError", "ProgrammingError", "IntegrityError"})
    => /\ reply.raised = "none"
       /\ Cardinality(reply.data) <= 1

\* select_row found the record it was asked for and returned it
SingularReturnFound ==
    /\ request.op = "select_row"
    /\ request.a.match_values = Some(<<"1">>)
    /\ reply.raised = "none"
    /\ \E r \in reply.data : r.record_id = "1"
    /\ Cardinality(reply.data) = 1

====
